---- MODULE Spec2Model ----
(***************************************************************************)
(* Workshop registration / reminder script (src/index.py).                 *)
(*                                                                         *)
(* Every tick is a fresh process: the module body loads the three JSON     *)
(* files, main() runs cleanup_old_workshops(), reads the clock and the     *)
(* sheet rows and processes the rows one by one.                           *)
(*                                                                         *)
(* Time is an IST instant in seconds since Monday 00:00:00 of week 0, so   *)
(* the day number is t \div 86400 and Python's weekday() is day % 7.       *)
(* A date string "%Y-%m-%d" is modelled by its day number.                 *)
(***************************************************************************)
EXTENDS Integers, Sequences, FiniteSets, TLC

\* ---------------------------------------------------------------- bounds
MaxDay == 6          \* ticks start on days 0..MaxDay
MaxRows == 2         \* rows read from the sheet in one tick
MaxGenDay == 13      \* reference days drawn for the occurrence generator
MaxCount == 4        \* counts drawn for the occurrence generator

\* ------------------------------------------------------ program constants
SecondsPerDay == 86400
SecondsPerHour == 3600
\* (mutant) Sunday is missing from the day set
WORKSHOP_DAYS_NoSunday == {1, 4}
WORKSHOP_DAYS == {1, 4, 6}
WorkshopStartHour == 20
TrackCount == 3
ReminderHours == <<10, 19, 20>>
minutes_tolerance == 10
PopHour == 22
IstUtcOffset == 19800

Emails == {"a", "b"}

\* <<day, second of the day>> at which a tick may read the clock first:
\* Monday 09:00:00; Tuesday 09:50:00, 19:10:00, 20:00:00, 21:59:59;
\* Friday 09:50:00, 21:59:59, 23:59:59; Sunday 21:59:59; Monday 09:00:00
TickTimes == { <<0, 32400>>,
               <<1, 35400>>, <<1, 69000>>, <<1, 72000>>, <<1, 79199>>,
               <<4, 35400>>, <<4, 79199>>, <<4, 86399>>,
               <<6, 79199>>,
               <<7, 32400>> }

\* seconds between the clock read of cleanup_old_workshops (line 146) and
\* that of main (line 162)
ClockLags == {0, 1}

\* UTC offsets (seconds) of the host's local time zone
HostUtcOffsets == {0, 36000}

\* sheet rows after the header: <<timestamp, name, email>>, possibly short.
\* Address b answers the form on the first Sunday: its row exists from then on.
RowVals == { <<"t", "N", " a">>, <<"t", " ", "b">>, <<"t", "N">> }
LateRowVals == { <<"t", "N", "b">> }
LateRowDay == 6

\* orders in which a set / dict may be serialised
Orders == { <<"a", "b">>, <<"b", "a">> }

\* the order the tick's process iterates its sets and dicts in
IterOrder == <<"a", "b">>

\* ------------------------------------------------------------ datetime
DayOf(t) == t \div SecondsPerDay
SecOf(t) == t % SecondsPerDay
weekday(t) == DayOf(t) % 7
hour(t) == SecOf(t) \div SecondsPerHour

\* dt.replace(hour=h, minute=0, second=0, microsecond=0)
ReplaceHour(t, h) == DayOf(t) * SecondsPerDay + h * SecondsPerHour

\* dt.strftime("%Y-%m-%d"): keeps the date, drops the time of day
strftime(t) == DayOf(t)

\* datetime.strptime(s, "%Y-%m-%d"): naive midnight of that date
strptime(s) == s * SecondsPerDay

\* naive.astimezone(WORKSHOP_TIMEZONE): a naive datetime is taken to be in
\* the host's local zone
astimezone(naive, hostOffset) == naive - hostOffset + IstUtcOffset

Abs(x) == IF x < 0 THEN -x ELSE x

\* ------------------------------------------- get_next_workshop_datetimes
RECURSIVE ScanWorkshops(_, _, _, _)
ScanWorkshops(from_dt, count, day_offset, next_workshops) ==
    IF Len(next_workshops) >= count THEN next_workshops
    ELSE LET candidate_day == from_dt + day_offset * SecondsPerDay
             workshop_start == ReplaceHour(candidate_day, WorkshopStartHour)
             found == /\ weekday(candidate_day) \in WORKSHOP_DAYS
                      /\ workshop_start > from_dt
         IN ScanWorkshops(from_dt, count, day_offset + 1,
                          IF found THEN Append(next_workshops, workshop_start)
                                   ELSE next_workshops)

\* (mutant) a workshop starting at the reference instant itself qualifies
RECURSIVE ScanInclusive(_, _, _, _)
ScanInclusive(from_dt, count, day_offset, next_workshops) ==
    IF Len(next_workshops) >= count THEN next_workshops
    ELSE LET candidate_day == from_dt + day_offset * SecondsPerDay
             workshop_start == ReplaceHour(candidate_day, WorkshopStartHour)
             found == /\ weekday(candidate_day) \in WORKSHOP_DAYS
                      /\ workshop_start >= from_dt
         IN ScanInclusive(from_dt, count, day_offset + 1,
                          IF found THEN Append(next_workshops, workshop_start)
                                   ELSE next_workshops)

get_next_inclusive(from_dt, count) == ScanInclusive(from_dt, count, 0, <<>>)

get_next_workshop_datetimes(from_dt, count) == ScanWorkshops(from_dt, count, 0, <<>>)

\* (mutant) the edges of the window are left out
is_within_tolerance_strict(t, target_hour) ==
    Abs(t - ReplaceHour(t, target_hour)) < minutes_tolerance * 60

\* ---------------------------------------------------- is_within_tolerance
\* (mutant) a tolerance of half an hour
is_within_tolerance_wide(t, target_hour) ==
    Abs(t - ReplaceHour(t, target_hour)) <= 30 * 60

is_within_tolerance(t, target_hour) ==
    Abs(t - ReplaceHour(t, target_hour)) <= minutes_tolerance * 60

\* ------------------------------------------------------------ persistence
NoFile == [exists |-> FALSE, data |-> <<>>]

\* list(data_set): the elements of the set in the order the set iterates
ListOfSet(s, ord) == LET In(e) == e \in s IN SelectSeq(ord, In)

\* json.dump(list(data_set), f)
save_set_to_file(data_set, ord) == [exists |-> TRUE, data |-> ListOfSet(data_set, ord)]

\* json.dump(data_dict, f): the members <<key, value>> of a JSON object
save_dict_to_file(data_dict, ord) ==
    LET ks == ListOfSet(DOMAIN data_dict, ord)
    IN [exists |-> TRUE, data |-> [i \in 1..Len(ks) |-> <<ks[i], data_dict[ks[i]]>>]]

\* set(json.load(f)) if the file exists, else set()
LoadSet(file) == IF file.exists THEN {file.data[i] : i \in DOMAIN file.data} ELSE {}

\* (mutant) only the first member of the JSON object is read back
LoadDictFirst(file) ==
    IF ~file.exists \/ file.data = <<>> THEN <<>>
    ELSE [k \in {file.data[1][1]} |-> file.data[1][2]]

\* json.load(f) if the file exists, else {}; the last member with a key wins
LoadDict(file) ==
    IF ~file.exists THEN <<>>
    ELSE LET d == file.data
             Last(k) == CHOOSE i \in DOMAIN d :
                           d[i][1] = k /\ \A j \in DOMAIN d : j > i => d[j][1] # k
         IN [k \in {d[i][1] : i \in DOMAIN d} |-> d[Last(k)][2]]

\* d[k] = v
Put(d, k, v) == [x \in (DOMAIN d) \cup {k} |-> IF x = k THEN v ELSE d[x]]

\* d.get(k, [])
Get(d, k) == IF k \in DOMAIN d THEN d[k] ELSE <<>>

\* str.strip()
strip(s) == CASE s = " " -> ""
              [] s = " a" -> "a"
              [] OTHER -> s


None == "<None>"
Falsy(x) == x = "" \/ x = None

\* ------------------------------------------------------------------ state
VARIABLES
    processed_file,      \* processed_emails.json
    reminder_file,       \* reminder_sent.json
    tracking_file,       \* workshop_tracking.json
    processed_emails,    \* set of addresses whose confirmation was sent
    reminder_sent,       \* dict: address -> list of reminder keys <<date, hour>>
    workshop_tracking,   \* dict: address -> list of upcoming workshop dates
    pc,                  \* "idle", "loaded", "cleaned", "rows", "crashed"
    clock,               \* the latest instant the wall clock was read at
    today,               \* cleanup_old_workshops' today
    now,                 \* main's now
    rows,                \* the rows of the sheet the loop of main has been through
    skipped,             \* the rows of the sheet left when the process died
    hostOffset,          \* UTC offset of the host's local zone
    tickSends,           \* history: send_email calls of the current tick
    tickWrites,          \* history: files written in the current tick
    confirmed,           \* history: address -> confirmation sends that returned True
    reminded,            \* history: address -> keys of reminder sends that returned True
    genCall,             \* a call of get_next_workshop_datetimes on its own
    stored,              \* the memory a save / load round trip started from
    peer                 \* a second process of the script run against the same files

aux == <<genCall, stored, peer>>
files == <<processed_file, reminder_file, tracking_file>>
memory == <<processed_emails, reminder_sent, workshop_tracking>>
history == <<tickSends, tickWrites, confirmed, reminded>>
vars == <<processed_file, reminder_file, tracking_file, processed_emails,
          reminder_sent, workshop_tracking, pc, clock, today, now, rows, skipped,
          hostOffset, tickSends, tickWrites, confirmed, reminded, genCall, stored,
          peer>>

Instants == {p[1] * SecondsPerDay + p[2] : p \in {q \in TickTimes : q[1] <= MaxDay}}

NoCall == [from_dt |-> 0, count |-> 0, result |-> <<>>, called |-> FALSE]

MainInit ==
    /\ processed_file = NoFile
    /\ reminder_file = NoFile
    /\ tracking_file = NoFile
    /\ processed_emails = {}
    /\ reminder_sent = <<>>
    /\ workshop_tracking = <<>>
    /\ pc = "idle"
    /\ clock = 0
    /\ today = 0
    /\ now = 0
    /\ rows = <<>>
    /\ skipped = <<>>
    /\ hostOffset \in HostUtcOffsets
    /\ tickSends = <<>>
    /\ tickWrites = {}
    /\ confirmed = [e \in Emails |-> 0]
    /\ reminded = [e \in Emails |-> <<>>]

NoStored == [pe |-> {}, rs |-> <<>>, wt |-> <<>>]

\* the second process has not been started
NoPeer == [pc |-> "idle", pe |-> {}, rs |-> <<>>, wt |-> <<>>, now |-> 0,
           sheet |-> <<>>, nrows |-> 0]

Init == MainInit /\ genCall = NoCall /\ stored = NoStored /\ peer = NoPeer

\* ------------------------------------------------- module body, lines 42-59
Load ==
    /\ pc \in {"idle", "crashed"}
    /\ processed_emails' = LoadSet(processed_file)
    /\ reminder_sent' = LoadDict(reminder_file)
    /\ workshop_tracking' = LoadDict(tracking_file)
    /\ pc' = "loaded"
    /\ rows' = <<>>
    /\ skipped' = <<>>
    /\ tickSends' = <<>>
    /\ tickWrites' = {}
    /\ UNCHANGED <<files, clock, today, now, hostOffset, confirmed, reminded, aux>>

\* ------------------------------------------------- cleanup_old_workshops
\* (mutant) today's date is dropped too
future_dates_after(dates, todayDate) ==
    LET Keep(d) == DayOf(strptime(d)) > todayDate IN SelectSeq(dates, Keep)

future_dates(dates, todayDate) ==
    LET Keep(d) == DayOf(strptime(d)) >= todayDate IN SelectSeq(dates, Keep)

cleanup_old_workshops(tracking, todayDate) ==
    [e \in DOMAIN tracking |-> future_dates(tracking[e], todayDate)]

Cleanup ==
    /\ pc = "loaded"
    /\ \E t \in Instants :
        /\ t >= clock
        /\ LET cleaned == cleanup_old_workshops(workshop_tracking, DayOf(t))
               changed == \E e \in DOMAIN workshop_tracking :
                             cleaned[e] # workshop_tracking[e]
           IN /\ workshop_tracking' = cleaned
              /\ tracking_file' = IF changed THEN save_dict_to_file(cleaned, IterOrder)
                                  ELSE tracking_file
              /\ tickWrites' = IF changed THEN tickWrites \cup {"tracking"}
                               ELSE tickWrites
        /\ today' = DayOf(t)
        /\ clock' = t
    /\ pc' = "cleaned"
    /\ UNCHANGED <<processed_file, reminder_file, processed_emails, reminder_sent,
                   now, rows, skipped, hostOffset, tickSends, confirmed, reminded,
                   aux>>

\* ------------------------------------------------- main, lines 162-165
\* The sheet is read once (line 163) and may hold any rows: the loop draws
\* each row as it comes to it. The rows the sheet may hold at instant t:
RowValsAt(t) == IF DayOf(t) >= LateRowDay THEN RowVals \cup LateRowVals ELSE RowVals
RowSeqs(t, maxLen) == UNION {[1..n -> RowValsAt(t)] : n \in 0..maxLen}

BeginMain ==
    /\ pc = "cleaned"
    /\ \E lag \in ClockLags :
        /\ now' = clock + lag
        /\ clock' = clock + lag
    /\ pc' = "rows"
    /\ UNCHANGED <<files, memory, today, rows, skipped, hostOffset, history, aux>>

\* ------------------------------------------------- main, one row (167-261)
\* The row body threads a record m through the statements of the loop body:
\*   pe, rs, wt        processed_emails, reminder_sent, workshop_tracking
\*   pf, rf, tf        the three files
\*   local             reminders_for_email (line 218)
\*   sends, writes     send_email calls and files written so far in the tick
\*   crashed           an uncaught exception ended the process

Attempt(email, kind, date, h, ok) ==
    [to |-> email, kind |-> kind, date |-> date, hour |-> h, ok |-> ok]

\* lines 177-180: a new address gets the next three workshop dates
AssignFirst(m, email, t, ord) ==
    IF email \in DOMAIN m.wt THEN m
    ELSE LET ws == get_next_workshop_datetimes(t, TrackCount)
             wt1 == Put(m.wt, email, [i \in 1..Len(ws) |-> strftime(ws[i])])
         IN [m EXCEPT !.wt = wt1,
                      !.tf = save_dict_to_file(wt1, ord),
                      !.writes = @ \cup {"tracking"}]

\* (mutant) the confirmation is sent without looking at processed_emails
ConfirmUnchecked(m, email, ok, ord) ==
    LET sent == [m EXCEPT !.sends = Append(@, Attempt(email, "confirmation", -1, -1, ok))]
    IN IF ok
       THEN [sent EXCEPT !.pe = @ \cup {email},
                         !.pf = save_set_to_file(m.pe \cup {email}, ord),
                         !.writes = @ \cup {"processed"}]
       ELSE sent

\* (mutant) processed_emails is saved for every row, sent or not
ConfirmResaving(m, email, ok, ord) ==
    IF email \in m.pe
    THEN [m EXCEPT !.pf = save_set_to_file(m.pe, ord), !.writes = @ \cup {"processed"}]
    ELSE ConfirmUnchecked(m, email, ok, ord)

\* lines 183-209: the confirmation email
Confirm(m, email, ok, ord) ==
    IF email \in m.pe THEN m
    ELSE LET sent == [m EXCEPT !.sends = Append(@, Attempt(email, "confirmation", -1, -1, ok))]
         IN IF ok
            THEN [sent EXCEPT !.pe = @ \cup {email},
                              !.pf = save_set_to_file(m.pe \cup {email}, ord),
                              !.writes = @ \cup {"processed"}]
            ELSE sent

\* (mutant) the reminder is sent without looking for its key in the list
RemindUnchecked(m, email, next_ws_date_str, t, h, ok, ord) ==
    LET reminder_key == <<next_ws_date_str, h>>
    IN IF is_within_tolerance(t, h)
       THEN LET sent == [m EXCEPT !.sends = Append(@, Attempt(email, "reminder", next_ws_date_str, h, ok))]
                list == Append(m.local, reminder_key)
                rs1 == Put(m.rs, email, list)
            IN IF ok
               THEN [sent EXCEPT !.local = list,
                                 !.rs = rs1,
                                 !.rf = save_dict_to_file(rs1, ord),
                                 !.writes = @ \cup {"reminder"}]
               ELSE sent
       ELSE m

\* (mutant) the key is recorded in memory and reminder_sent is not saved
RemindUnsaved(m, email, next_ws_date_str, t, h, ok, ord) ==
    LET reminder_key == <<next_ws_date_str, h>>
        InList == \E i \in DOMAIN m.local : m.local[i] = reminder_key
    IN IF is_within_tolerance(t, h) /\ ~InList
       THEN LET sent == [m EXCEPT !.sends = Append(@, Attempt(email, "reminder", next_ws_date_str, h, ok))]
                list == Append(m.local, reminder_key)
            IN IF ok
               THEN [sent EXCEPT !.local = list, !.rs = Put(m.rs, email, list)]
               ELSE sent
       ELSE m

\* lines 226-249: one iteration of the loop over the reminder hours
Remind(m, email, next_ws_date_str, t, h, ok, ord) ==
    LET reminder_key == <<next_ws_date_str, h>>
        InList == \E i \in DOMAIN m.local : m.local[i] = reminder_key
    IN IF is_within_tolerance(t, h) /\ ~InList
       THEN LET sent == [m EXCEPT !.sends = Append(@, Attempt(email, "reminder", next_ws_date_str, h, ok))]
                list == Append(m.local, reminder_key)
                rs1 == Put(m.rs, email, list)
            IN IF ok
               THEN [sent EXCEPT !.local = list,
                                 !.rs = rs1,
                                 !.rf = save_dict_to_file(rs1, ord),
                                 !.writes = @ \cup {"reminder"}]
               ELSE sent
       ELSE m

\* lines 218-249: the reminders of the workshop day
RECURSIVE RemindLoop(_, _, _, _, _, _, _)
RemindLoop(m, email, next_ws_date_str, t, i, okr, ord) ==
    IF i > Len(ReminderHours) THEN m
    ELSE RemindLoop(Remind(m, email, next_ws_date_str, t, ReminderHours[i],
                           okr[ReminderHours[i]], ord),
                    email, next_ws_date_str, t, i + 1, okr, ord)

\* lines 252-254: after 10 PM the workshop leaves the list
PopHead(m, email, t, ord) ==
    IF hour(t) >= PopHour
    THEN LET wt1 == [m.wt EXCEPT ![email] = Tail(@)]
         IN [m EXCEPT !.wt = wt1,
                      !.tf = save_dict_to_file(wt1, ord),
                      !.writes = @ \cup {"tracking"}]
    ELSE m

\* lines 257-261: top the list up to three dates; [-1] of an empty list
\* raises IndexError, which nothing catches
RECURSIVE TopUp(_, _, _, _)
TopUp(m, email, host, ord) ==
    IF Len(m.wt[email]) >= TrackCount THEN m
    ELSE IF m.wt[email] = <<>> THEN [m EXCEPT !.crashed = TRUE]
    ELSE LET last_date == strptime(m.wt[email][Len(m.wt[email])])
             more_dates == get_next_workshop_datetimes(
                               astimezone(last_date + SecondsPerDay, host), 1)
             wt1 == [m.wt EXCEPT ![email] = Append(@, strftime(more_dates[1]))]
         IN TopUp([m EXCEPT !.wt = wt1,
                            !.tf = save_dict_to_file(wt1, ord),
                            !.writes = @ \cup {"tracking"}],
                  email, host, ord)

\* (mutant) the reminders of the head are sent whatever the day
FirstUpcomingAnyDay(m, email, t, host, okr, ord) ==
    LET personal_workshops == Get(m.wt, email)
    IN IF personal_workshops = <<>> THEN m
       ELSE LET next_ws_date_str == personal_workshops[1]
                m1 == PopHead(RemindLoop([m EXCEPT !.local = Get(m.rs, email)],
                                         email, next_ws_date_str, t, 1, okr, ord),
                              email, t, ord)
            IN TopUp(m1, email, host, ord)

\* lines 212-261: the first upcoming workshop of the address
FirstUpcoming(m, email, t, host, okr, ord) ==
    LET personal_workshops == Get(m.wt, email)
    IN IF personal_workshops = <<>> THEN m
       ELSE LET next_ws_date_str == personal_workshops[1]
                ws_dt == strptime(next_ws_date_str)
                m1 == IF DayOf(t) = DayOf(ws_dt)
                      THEN PopHead(RemindLoop([m EXCEPT !.local = Get(m.rs, email)],
                                              email, next_ws_date_str, t, 1, okr, ord),
                                   email, t, ord)
                      ELSE m
            IN TopUp(m1, email, host, ord)

\* lines 169-170: the fields of a row (Python index 1 and 2)
RowName(row) == IF Len(row) > 1 THEN strip(row[2]) ELSE None
RowEmail(row) == IF Len(row) > 2 THEN strip(row[3]) ELSE None

\* (mutant) only the email field is looked at before the row is processed
RowBodyEmailOnly(m, row, t, host, okc, okr, ord) ==
    LET email == RowEmail(row)
    IN IF Falsy(email) THEN m
       ELSE FirstUpcoming(Confirm(AssignFirst(m, email, t, ord), email, okc, ord),
                          email, t, host, okr, ord)

\* lines 167-261: the body of the loop over the rows
RowBody(m, row, t, host, okc, okr, ord) ==
    LET name == RowName(row)
        email == RowEmail(row)
    IN IF Falsy(email) \/ Falsy(name) THEN m
       ELSE FirstUpcoming(Confirm(AssignFirst(m, email, t, ord), email, okc, ord),
                          email, t, host, okr, ord)

\* the reminder hours whose window holds t: the sends whose outcome matters
DueHours(t) == {ReminderHours[i] : i \in {j \in DOMAIN ReminderHours :
                                            is_within_tolerance(t, ReminderHours[j])}}

OkSends(sends, email, kind) ==
    LET Is(a) == a.to = email /\ a.kind = kind /\ a.ok IN SelectSeq(sends, Is)

ProcessRow ==
    /\ pc = "rows"
    /\ Len(rows) < MaxRows
    /\ \E row \in RowValsAt(now), okc \in BOOLEAN, okr \in [DueHours(now) -> BOOLEAN] :
        LET m0 == [pe |-> processed_emails, rs |-> reminder_sent,
                   wt |-> workshop_tracking, pf |-> processed_file,
                   rf |-> reminder_file, tf |-> tracking_file, local |-> <<>>,
                   sends |-> <<>>, writes |-> tickWrites, crashed |-> FALSE]
            m == RowBody(m0, row, now, hostOffset, okc, okr, IterOrder)
        IN /\ processed_emails' = m.pe
           /\ reminder_sent' = m.rs
           /\ workshop_tracking' = m.wt
           /\ processed_file' = m.pf
           /\ reminder_file' = m.rf
           /\ tracking_file' = m.tf
           /\ tickSends' = tickSends \o m.sends
           /\ tickWrites' = m.writes
           /\ confirmed' = [e \in Emails |->
                              confirmed[e] + Len(OkSends(m.sends, e, "confirmation"))]
           /\ reminded' = [e \in Emails |->
                              LET oks == OkSends(m.sends, e, "reminder")
                              IN reminded[e] \o [i \in 1..Len(oks) |-> <<oks[i].date, oks[i].hour>>]]
           /\ pc' = IF m.crashed THEN "crashed" ELSE "rows"
           /\ rows' = Append(rows, row)
           /\ skipped' \in IF m.crashed THEN RowSeqs(now, MaxRows - Len(rows) - 1)
                                        ELSE {<<>>}
    /\ UNCHANGED <<clock, today, now, hostOffset, aux>>

\* the loop over the rows ends: the process exits
EndTick ==
    /\ pc = "rows"
    /\ pc' = "idle"
    /\ rows' = <<>>
    /\ tickSends' = <<>>
    /\ tickWrites' = {}
    /\ UNCHANGED <<files, memory, clock, today, now, skipped, hostOffset, confirmed,
                   reminded, aux>>

Next == Load \/ Cleanup \/ BeginMain \/ ProcessRow \/ EndTick

Spec == Init /\ [][Next]_vars

\* --------------------------------- the occurrence generator on its own
GenTimes == {0, 32400, 71999, 72000, 72001, 86399}

GenCalls ==
    {[from_dt |-> d * SecondsPerDay + t, count |-> c, result |-> <<>>, called |-> FALSE] :
        d \in 0..MaxGenDay, t \in GenTimes, c \in 1..MaxCount}

InitGen == MainInit /\ genCall \in GenCalls /\ stored = NoStored /\ peer = NoPeer

GenApply ==
    /\ ~genCall.called
    /\ genCall' = [genCall EXCEPT
                     !.result = get_next_workshop_datetimes(genCall.from_dt, genCall.count),
                     !.called = TRUE]
    /\ UNCHANGED <<files, memory, pc, clock, today, now, rows, skipped, hostOffset,
                   history, stored, peer>>

SpecGen == InitGen /\ [][GenApply]_vars

\* ------------------------------------ persisting and reloading on its own
StoreKeyLists == { <<>>, <<<<1, 10>>>>, <<<<1, 10>>, <<1, 19>>>>, <<<<4, 20>>, <<1, 10>>>> }
StoreDateLists == { <<>>, <<4, 6>>, <<1, 4, 6>> }

Dicts(vals) == UNION {[D -> vals] : D \in SUBSET Emails}

InitStore ==
    /\ processed_file = NoFile
    /\ reminder_file = NoFile
    /\ tracking_file = NoFile
    /\ processed_emails \in SUBSET Emails
    /\ reminder_sent \in Dicts(StoreKeyLists)
    /\ workshop_tracking \in Dicts(StoreDateLists)
    /\ stored = [pe |-> processed_emails, rs |-> reminder_sent, wt |-> workshop_tracking]
    /\ pc = "rows"
    /\ clock = 0
    /\ today = 0
    /\ now = 0
    /\ rows = <<>>
    /\ skipped = <<>>
    /\ hostOffset = 0
    /\ tickSends = <<>>
    /\ tickWrites = {}
    /\ confirmed = [e \in Emails |-> 0]
    /\ reminded = [e \in Emails |-> <<>>]
    /\ genCall = NoCall
    /\ peer = NoPeer

\* the three saves of main (lines 180, 209, 249), each file in some order
StoreSave ==
    /\ pc = "rows"
    /\ \E o1 \in Orders, o2 \in Orders :
        /\ processed_file' = save_set_to_file(processed_emails, o1)
        /\ reminder_file' = save_dict_to_file(reminder_sent, o2)
        /\ tracking_file' = save_dict_to_file(workshop_tracking, o2)
    /\ pc' = "idle"
    /\ UNCHANGED <<memory, clock, today, now, rows, skipped, hostOffset, history, aux>>

NextStore == StoreSave \/ Load

SpecStore == InitStore /\ [][NextStore]_vars

\* ------------------------------------------- two processes, the same files
\* The script is started a second time while a tick of the first is under
\* way. The second process has its own copies of the three structures, loaded
\* at its start (lines 42-59), and rewrites the same three files.
TwoStart == 4 * SecondsPerDay + 35400

\* the sheets the second process may read (line 163)
PeerSheets == { <<<<"t", "N", " a">>>>,
                <<<<"t", "N", "b">>>>,
                <<<<"t", "N", " a">>, <<"t", "N", "b">>>>,
                <<<<"t", "N", "b">>, <<"t", "N", " a">>>>,
                <<<<"t", "N", " a">>, <<"t", "N", " a">>>> }

InitTwo ==
    /\ processed_file = NoFile
    /\ reminder_file = NoFile
    /\ tracking_file = NoFile
    /\ processed_emails = {}
    /\ reminder_sent = <<>>
    /\ workshop_tracking = <<>>
    /\ pc = "idle"
    /\ clock = TwoStart
    /\ today = DayOf(TwoStart)
    /\ now = TwoStart
    /\ rows = <<>>
    /\ skipped = <<>>
    /\ hostOffset = 0
    /\ tickSends = <<>>
    /\ tickWrites = {}
    /\ confirmed = [e \in Emails |-> 0]
    /\ reminded = [e \in Emails |-> <<>>]
    /\ genCall = NoCall
    /\ stored = NoStored
    /\ peer = NoPeer

\* module body of the second process, lines 42-59
PeerLoad ==
    /\ peer.pc = "idle"
    /\ peer' = [peer EXCEPT !.pc = "loaded",
                            !.pe = LoadSet(processed_file),
                            !.rs = LoadDict(reminder_file),
                            !.wt = LoadDict(tracking_file)]
    /\ UNCHANGED <<files, memory, pc, clock, today, now, rows, skipped, hostOffset,
                   history, genCall, stored>>

\* cleanup_old_workshops and lines 162-165 of the second process
PeerCleanup ==
    /\ peer.pc = "loaded"
    /\ \E t \in {TwoStart}, lag \in ClockLags, sheet \in PeerSheets :
        /\ t >= clock
        /\ LET cleaned == cleanup_old_workshops(peer.wt, DayOf(t))
               changed == \E e \in DOMAIN peer.wt : cleaned[e] # peer.wt[e]
           IN /\ peer' = [peer EXCEPT !.pc = "rows", !.wt = cleaned, !.now = t + lag,
                                      !.sheet = sheet]
              /\ tracking_file' = IF changed THEN save_dict_to_file(cleaned, IterOrder)
                                  ELSE tracking_file
        /\ clock' = t + lag
    /\ UNCHANGED <<processed_file, reminder_file, memory, pc, today, now, rows,
                   skipped, hostOffset, history, genCall, stored>>

\* one iteration of the loop over the rows in the second process
PeerRow ==
    /\ peer.pc = "rows"
    /\ peer.nrows < Len(peer.sheet)
    /\ \E okc \in BOOLEAN, okr \in [DueHours(peer.now) -> BOOLEAN] :
        LET row == peer.sheet[peer.nrows + 1]
            m0 == [pe |-> peer.pe, rs |-> peer.rs, wt |-> peer.wt,
                   pf |-> processed_file, rf |-> reminder_file, tf |-> tracking_file,
                   local |-> <<>>, sends |-> <<>>, writes |-> {}, crashed |-> FALSE]
            m == RowBody(m0, row, peer.now, hostOffset, okc, okr, IterOrder)
        IN /\ peer' = [peer EXCEPT !.pe = m.pe, !.rs = m.rs, !.wt = m.wt,
                                   !.nrows = @ + 1,
                                   !.pc = IF m.crashed THEN "done" ELSE "rows"]
           /\ processed_file' = m.pf
           /\ reminder_file' = m.rf
           /\ tracking_file' = m.tf
           /\ confirmed' = [e \in Emails |->
                              confirmed[e] + Len(OkSends(m.sends, e, "confirmation"))]
           /\ reminded' = [e \in Emails |->
                              LET oks == OkSends(m.sends, e, "reminder")
                              IN reminded[e] \o [i \in 1..Len(oks) |-> <<oks[i].date, oks[i].hour>>]]
    /\ UNCHANGED <<memory, pc, clock, today, now, rows, skipped, hostOffset,
                   tickSends, tickWrites, genCall, stored>>

\* the second process exits
PeerEnd ==
    /\ peer.pc = "rows"
    /\ peer.nrows = Len(peer.sheet)
    /\ peer' = [peer EXCEPT !.pc = "done"]
    /\ UNCHANGED <<files, memory, pc, clock, today, now, rows, skipped, hostOffset,
                   history, genCall, stored>>

\* The first process, in the minute the second one is started in: it starts
\* no new tick once the second has started, reads the clock at TwoStart and
\* finds rows with a name and an address in the sheet.
TwoLoad == Load /\ peer.pc = "idle"
TwoCleanup == Cleanup /\ clock' = TwoStart
TwoRow ==
    /\ ProcessRow
    /\ ~Falsy(RowEmail(rows'[Len(rows')]))
    /\ ~Falsy(RowName(rows'[Len(rows')]))

NextTwo ==
    \/ TwoLoad \/ TwoCleanup \/ BeginMain \/ TwoRow \/ EndTick
    \/ PeerLoad \/ PeerCleanup \/ PeerRow \/ PeerEnd

SpecTwo == InitTwo /\ [][NextTwo]_vars

\* ======================================================================
\* Properties
\* ======================================================================
Range(q) == {q[i] : i \in DOMAIN q}
NoDuplicates(q) == \A i, j \in DOMAIN q : q[i] = q[j] => i = j

\* the send_email calls made by the step
NewSends ==
    IF Len(tickSends') > Len(tickSends)
    THEN SubSeq(tickSends', Len(tickSends) + 1, Len(tickSends'))
    ELSE <<>>

\* the loop has just processed a row of recipient e
RowOf(e) ==
    /\ pc = "rows"
    /\ rows # <<>>
    /\ RowEmail(rows[Len(rows)]) = e
    /\ ~Falsy(RowName(rows[Len(rows)]))

\* C1: at most one confirmation send succeeds per address, and once one has
\* succeeded no step (any row, any later tick) calls send_email with the
\* confirmation for that address again.
C1_ConfirmationOnce ==
    [][\A e \in Emails :
          /\ confirmed'[e] <= 1
          /\ confirmed[e] >= 1 =>
                \A i \in DOMAIN NewSends :
                    ~(NewSends[i].to = e /\ NewSends[i].kind = "confirmation")]_vars

\* C1 witness: a later tick has processed the row of an address whose
\* confirmation succeeded in an earlier tick, and has sent nothing.
C1_Witness ==
    /\ RowOf("a")
    /\ confirmed["a"] = 1
    /\ tickSends = <<>>

\* C2: for every recipient no reminder key is sent successfully twice, no key
\* appears twice in reminder_sent[email], and no step sends a reminder whose
\* key is already in the recipient's list.
C2_ReminderOncePerSlot ==
    [][\A e \in Emails :
          /\ NoDuplicates(reminded'[e])
          /\ NoDuplicates(Get(reminder_sent', e))
          /\ \A i \in DOMAIN NewSends :
                (NewSends[i].to = e /\ NewSends[i].kind = "reminder")
                    => <<NewSends[i].date, NewSends[i].hour>> \notin Range(Get(reminder_sent, e))]_vars

\* C2 witness: a later tick has processed the recipient's row inside the
\* window of a slot whose key is already recorded for today's occurrence,
\* and has sent nothing.
C2_Witness ==
    /\ RowOf("a")
    /\ tickSends = <<>>
    /\ Get(workshop_tracking, "a") # <<>>
    /\ workshop_tracking["a"][1] = DayOf(now)
    /\ \E h \in DueHours(now) : <<DayOf(now), h>> \in Range(Get(reminder_sent, "a"))

\* C3: get_next_workshop_datetimes(from_dt, count) returns exactly count
\* instants, strictly increasing, each strictly later than from_dt, each on a
\* Tuesday, Friday or Sunday at 20:00:00, and none of the workshop instants
\* between from_dt and the last one returned is skipped; Monday 09:00 gives
\* Tuesday 20:00 first, a workshop day before 20:00 gives that day first, and
\* 20:00 sharp on a workshop day does not give that day.
IsWorkshopInstant(t) ==
    /\ t % 86400 = 20 * 3600
    /\ (t \div 86400) % 7 \in {1, 4, 6}

C3_NextOccurrences ==
    genCall.called =>
        LET r == genCall.result
            f == genCall.from_dt
            n == genCall.count
            OnWorkshopDay == (f \div 86400) % 7 \in {1, 4, 6}
        IN /\ Len(r) = n
           /\ \A i \in 1..Len(r) : r[i] > f /\ IsWorkshopInstant(r[i])
           /\ \A i, j \in 1..Len(r) : i < j => r[i] < r[j]
           /\ \A d \in (f \div 86400)..(r[Len(r)] \div 86400) :
                 LET w == d * 86400 + 20 * 3600
                 IN (IsWorkshopInstant(w) /\ w > f /\ w <= r[Len(r)]) => w \in Range(r)
           /\ f = 9 * 3600 => r[1] = 86400 + 20 * 3600
           /\ (OnWorkshopDay /\ f % 86400 < 20 * 3600) => r[1] \div 86400 = f \div 86400
           /\ (OnWorkshopDay /\ f % 86400 = 20 * 3600) => r[1] \div 86400 > f \div 86400

\* C3 witness: called for three occurrences at 20:00 sharp on a Tuesday, the
\* result starts with Friday.
C3_Witness ==
    /\ genCall.called
    /\ genCall.from_dt = 86400 + 20 * 3600
    /\ genCall.count = 3
    /\ genCall.result = <<4 * 86400 + 72000, 6 * 86400 + 72000, 8 * 86400 + 72000>>

\* C10: saving the three structures, in whatever order the set and the dict
\* members are written, and loading them in a fresh process gives back the
\* same set of addresses and the same mappings (same keys, same lists).
C10_RoundTrip ==
    pc = "loaded" =>
        /\ processed_emails = stored.pe
        /\ DOMAIN reminder_sent = DOMAIN stored.rs
        /\ \A e \in DOMAIN stored.rs : reminder_sent[e] = stored.rs[e]
        /\ DOMAIN workshop_tracking = DOMAIN stored.wt
        /\ \A e \in DOMAIN stored.wt : workshop_tracking[e] = stored.wt[e]

\* C10 witness: two addresses and two-recipient mappings were written with
\* b before a and loaded again.
C10_Witness ==
    /\ pc = "loaded"
    /\ processed_file.data = <<"b", "a">>
    /\ Len(reminder_file.data) = 2
    /\ reminder_file.data[1][1] = "b"
    /\ Get(reminder_sent, "a") = <<<<1, 10>>, <<1, 19>>>>
    /\ Get(workshop_tracking, "b") = <<1, 4, 6>>

\* the calls of a kind to a recipient among a sequence of send_email calls
SendsTo(sends, e, kind) ==
    LET Is(a) == a.to = e /\ a.kind = kind IN SelectSeq(sends, Is)

\* the recipients named by a valid row among a sequence of rows
Recipients(rs) ==
    {RowEmail(rs[i]) : i \in {j \in DOMAIN rs : ~Falsy(RowEmail(rs[j])) /\ ~Falsy(RowName(rs[j]))}}

\* every notification that is due to a recipient of the sheet has been
\* attempted by the time the tick is through the sheet
DueAttempted ==
    pc \in {"rows", "crashed"} =>
        \A e \in Recipients(rows \o skipped) :
            /\ (e \in DOMAIN workshop_tracking /\ e \notin processed_emails)
                  => SendsTo(tickSends, e, "confirmation") # <<>>
            /\ \A h \in {10, 19, 20} :
                  (/\ Get(workshop_tracking, e) # <<>>
                   /\ workshop_tracking[e][1] = now \div 86400
                   /\ Abs((now % 86400) - h * 3600) <= 600
                   /\ <<now \div 86400, h>> \notin Range(Get(reminder_sent, e)))
                  => \E i \in DOMAIN tickSends :
                        /\ tickSends[i].to = e
                        /\ tickSends[i].kind = "reminder"
                        /\ tickSends[i].date = now \div 86400
                        /\ tickSends[i].hour = h

\* a send that returned False changes neither structure, in memory or on disk
FailedSendChangesNothing ==
    \A e \in Emails :
        /\ OkSends(NewSends, e, "confirmation") = <<>> =>
              /\ e \in processed_emails' <=> e \in processed_emails
              /\ e \in LoadSet(processed_file') <=> e \in LoadSet(processed_file)
        /\ OkSends(NewSends, e, "reminder") = <<>> =>
              /\ Get(reminder_sent', e) = Get(reminder_sent, e)
              /\ Get(LoadDict(reminder_file'), e) = Get(LoadDict(reminder_file), e)

C5_TotalCap ==
    [][\A e \in Emails :
          Len(reminded[e]) >= 3 => SendsTo(NewSends, e, "reminder") = <<>>]_vars

\* C5 amended: the cap is per occurrence: a recipient is sent at most three
\* reminders for one occurrence date, one per slot, and is reminded again for
\* the next occurrence of its queue.
C5_CapPerOccurrence ==
    \A e \in Emails : \A k \in DOMAIN reminded[e] :
        Cardinality({i \in DOMAIN reminded[e] : reminded[e][i][1] = reminded[e][k][1]}) <= 3

\* C5 witness: three reminders for Tuesday's occurrence and one for Friday's.
C5_Witness ==
    /\ Len(reminded["a"]) = 4
    /\ Cardinality({i \in 1..4 : reminded["a"][i][1] = 1}) = 3
    /\ reminded["a"][4][1] = 4

\* the step is cleanup_old_workshops
IsCleanup == pc = "loaded" /\ pc' = "cleaned"

\* the k-th smallest element of a set of indices
NthOf(S, k) == CHOOSE i \in S : Cardinality({j \in S : j < i}) = k - 1

\* C6: cleanup_old_workshops removes from every queue exactly the dates before
\* today, keeps today's date and the order of the kept dates, and leaves
\* reminder_sent and processed_emails (and their files) as they were.
C6_CleanupRemovesPast ==
    [][IsCleanup =>
          /\ DOMAIN workshop_tracking' = DOMAIN workshop_tracking
          /\ \A e \in DOMAIN workshop_tracking :
                LET old == workshop_tracking[e]
                    new == workshop_tracking'[e]
                    kept == {i \in DOMAIN old : old[i] >= today'}
                IN /\ Len(new) = Cardinality(kept)
                   /\ \A k \in 1..Len(new) : new[k] = old[NthOf(kept, k)]
          /\ reminder_sent' = reminder_sent
          /\ processed_emails' = processed_emails
          /\ reminder_file' = reminder_file
          /\ processed_file' = processed_file]_vars

\* C6 witness: cleanup has just removed a passed date, kept today's, and the
\* reminder key of a passed occurrence is still in reminder_sent.
C6_Witness ==
    /\ pc = "cleaned"
    /\ "tracking" \in tickWrites
    /\ Get(workshop_tracking, "a") # <<>>
    /\ workshop_tracking["a"][1] = today
    /\ \E key \in Range(Get(reminder_sent, "a")) :
          key[1] < today /\ key[1] \notin Range(workshop_tracking["a"])

\* C7 as stated: a tick that has attempted no notification has written no file.
C7_NoSendNoWrite ==
    (pc \in {"cleaned", "rows", "crashed"} /\ tickSends = <<>>) => tickWrites = {}

\* C7 amended: a tick that has attempted no notification has written neither
\* processed_emails.json nor reminder_sent.json; it may have written
\* workshop_tracking.json (cleanup, the 22:00 pop, the top-up).
C7_NoSendNoLogWrite ==
    (pc \in {"cleaned", "rows", "crashed"} /\ tickSends = <<>>) => tickWrites \subseteq {"tracking"}

\* C7 witness: the row of a registered recipient was processed, nothing was
\* sent and workshop_tracking.json was written.
C7_Witness ==
    /\ RowOf("a")
    /\ "a" \in processed_emails
    /\ tickSends = <<>>
    /\ tickWrites = {"tracking"}

\* C8: when the loop processes the row of a registered recipient whose next
\* queued occurrence is today, at a time within 10 minutes (inclusive) of a
\* slot hour h in {10, 19, 20}, with no key recorded for (today, h), it calls
\* send_email with exactly one reminder for that recipient, the one of
\* (today, h); if the send succeeds exactly that key is appended to
\* reminder_sent[email] and it is the only reminder sent to the recipient in
\* the tick, otherwise the list is left as it was.
C8_OneReminderInWindow ==
    [][\A e \in Emails, h \in {10, 19, 20} :
          LET day == now \div 86400
              key == <<day, h>>
              Case == /\ pc = "rows"
                      /\ Len(rows') = Len(rows) + 1
                      /\ Recipients(<<rows'[Len(rows')]>>) = {e}
                      /\ e \in processed_emails
                      /\ Get(workshop_tracking, e) # <<>>
                      /\ workshop_tracking[e][1] = day
                      /\ Abs((now % 86400) - h * 3600) <= 600
                      /\ key \notin Range(Get(reminder_sent, e))
              rem == SendsTo(NewSends, e, "reminder")
          IN Case =>
                /\ Len(rem) = 1
                /\ rem[1].date = day
                /\ rem[1].hour = h
                /\ IF rem[1].ok
                   THEN /\ Get(reminder_sent', e) = Append(Get(reminder_sent, e), key)
                        /\ reminded'[e] = Append(reminded[e], key)
                        /\ Len(OkSends(tickSends', e, "reminder")) = 1
                   ELSE Get(reminder_sent', e) = Get(reminder_sent, e)]_vars

\* C8 witness: at 19:10:00 sharp on the day of the occurrence the row of a
\* recipient registered in an earlier tick was processed, one reminder was
\* sent and its key (today, 19) is the last of reminder_sent.
C8_Witness ==
    /\ RowOf("a")
    /\ now % 86400 = 19 * 3600 + 600
    /\ confirmed["a"] = 1
    /\ Len(tickSends) = 1
    /\ tickSends[1].kind = "reminder"
    /\ tickSends[1].ok
    /\ Get(reminder_sent, "a") # <<>>
    /\ reminder_sent["a"][Len(reminder_sent["a"])] = <<now \div 86400, 19>>

StrictlyIncreasing(q) == \A i, j \in DOMAIN q : i < j => q[i] < q[j]

\* C9: after a tick every recipient's queue is strictly increasing in date,
\* and right after cleanup_old_workshops it is strictly increasing and holds
\* no date earlier than cleanup's today.
C9_QueueIncreasing ==
    /\ pc \in {"idle", "crashed", "cleaned"} =>
          \A e \in DOMAIN workshop_tracking : StrictlyIncreasing(workshop_tracking[e])
    /\ pc = "cleaned" =>
          \A e \in DOMAIN workshop_tracking :
              \A i \in DOMAIN workshop_tracking[e] : workshop_tracking[e][i] >= today

\* rows with a missing or blank name or email field
SkipRows == { <<>>, <<"t">>, <<"t", "N">>, <<"t", "N", "">>, <<"t", "N", " ">>,
              <<"t", "", "a">>, <<"t", " ", "b">>, <<"t", " ", " ">> }

\* the state the loop body starts from
LoopState ==
    [pe |-> processed_emails, rs |-> reminder_sent, wt |-> workshop_tracking,
     pf |-> processed_file, rf |-> reminder_file, tf |-> tracking_file,
     local |-> <<>>, sends |-> <<>>, writes |-> tickWrites, crashed |-> FALSE]

\* the step processes a row without a name or without an email
SkipsRow ==
    /\ pc = "rows"
    /\ Len(rows') = Len(rows) + 1
    /\ Falsy(RowEmail(rows'[Len(rows')])) \/ Falsy(RowName(rows'[Len(rows')]))

\* C11: a row whose name or email is missing or blank after stripping is
\* skipped: no send_email call, no change of workshop_tracking,
\* processed_emails or reminder_sent, no file written, and the loop goes on
\* to the next row; the loop body leaves its state as it was for every such
\* row, whatever the send outcomes would be.
C11_BlankRowSkipped ==
    [][/\ SkipsRow =>
            /\ NewSends = <<>>
            /\ UNCHANGED <<memory, files, tickWrites, confirmed, reminded>>
            /\ pc' = "rows"
            /\ skipped' = <<>>
       /\ pc = "rows" =>
            \A row \in SkipRows, okc \in BOOLEAN, okr \in [DueHours(now) -> BOOLEAN] :
                RowBody(LoopState, row, now, hostOffset, okc, okr, IterOrder) = LoopState]_vars

\* C11 witness: a row without an email column was skipped and the row after
\* it was processed: its address was tracked and sent its confirmation.
C11_Witness ==
    /\ pc = "rows"
    /\ Len(rows) = 2
    /\ rows[1] = <<"t", "N">>
    /\ RowEmail(rows[2]) = "a"
    /\ Len(tickSends) = 1
    /\ tickSends[1].kind = "confirmation"
    /\ tickSends[1].to = "a"
    /\ "a" \in DOMAIN workshop_tracking

\* C12: once the loop has processed the row of a tracked recipient, the
\* recipient's queue holds exactly three dates, whatever the pop at hour >= 22
\* or cleanup_old_workshops left of it.
C12_QueueRestored ==
    pc \in {"rows", "crashed"} =>
        \A e \in Recipients(rows) :
            e \in DOMAIN workshop_tracking => Len(workshop_tracking[e]) = 3

\* C13: send_email is called with a reminder for an address only if the
\* address is in processed_emails at that moment (the confirmation of the
\* row comes before its reminders, so that is processed_emails after the row).
C13_ReminderOnlyIfRegistered ==
    [][\A i \in DOMAIN NewSends :
          NewSends[i].kind = "reminder" => NewSends[i].to \in processed_emails']_vars

\* the attempts, among a sequence of send_email calls, of the notification
\* that call a is an attempt of
AttemptsOf(sends, a) ==
    LET Same(b) == b.to = a.to /\ b.kind = a.kind /\ b.date = a.date /\ b.hour = a.hour
    IN SelectSeq(sends, Same)

\* C14: a notification whose send fails is attempted again while the row is
\* processed, until an attempt succeeds or three have been made: the attempts
\* of a notification in a row are failures followed by a success or by the
\* third failure, and no notification is attempted more than three times in
\* a tick.
C14_RetriedUpToThree ==
    [][\A i \in DOMAIN NewSends :
          LET tries == AttemptsOf(NewSends, NewSends[i])
          IN /\ tries[Len(tries)].ok \/ Len(tries) = 3
             /\ \A k \in 1..(Len(tries) - 1) : ~tries[k].ok
             /\ Len(AttemptsOf(tickSends', NewSends[i])) <= 3]_vars

\* the three files hold the three structures of a loop state
Synced(m) ==
    /\ LoadSet(m.pf) = m.pe
    /\ LoadDict(m.rf) = m.rs
    /\ LoadDict(m.tf) = m.wt

\* C15: every mutation of a structure is saved to its file before the next
\* send: the files hold the in-memory state when the confirmation of a row is
\* attempted (after the first-contact assignment), when its reminder is
\* attempted (after the confirmation), after the row, after
\* cleanup_old_workshops and when the tick ends.
C15_SavedAfterMutation ==
    [][/\ Synced(LoopState)'
       /\ (pc = "rows" /\ Len(rows') = Len(rows) + 1) =>
            LET row == rows'[Len(rows')]
                email == RowEmail(row)
                assigned == AssignFirst(LoopState, email, now, IterOrder)
            IN (~Falsy(email) /\ ~Falsy(RowName(row))) =>
                  /\ Synced(assigned)
                  /\ \A okc \in BOOLEAN : Synced(Confirm(assigned, email, okc, IterOrder))]_vars

\* C15 witness: a row whose confirmation and reminder both succeeded has been
\* processed and the three files exist.
C15_Witness ==
    /\ pc = "rows"
    /\ Len(tickSends) = 2
    /\ tickSends[1].ok
    /\ tickSends[2].ok
    /\ tickSends[2].kind = "reminder"
    /\ processed_file.exists
    /\ reminder_file.exists
    /\ tracking_file.exists
    /\ reminder_sent # <<>>

\* every notification sent successfully is recorded in its file
NothingLost ==
    \A e \in Emails :
        /\ confirmed[e] >= 1 => e \in LoadSet(processed_file)
        /\ Range(reminded[e]) \subseteq Range(Get(LoadDict(reminder_file), e))

\* C16: two processes of the script against the same three files. As long as
\* the second has not been started no notification is sent twice and none
\* that was sent is missing from its file; with the second running, each
\* process sends a notification at most once, so none is sent more than
\* twice, and a step that writes a file leaves in it the structure of the
\* process that wrote it (last writer wins). The witness shows that the
\* duplicate sends and the lost records do happen.
C16_TwoInstances ==
    [][/\ peer'.pc = "idle" =>
            /\ \A e \in Emails : confirmed'[e] <= 1 /\ NoDuplicates(reminded'[e])
            /\ NothingLost'
       /\ \A e \in Emails :
            /\ confirmed'[e] <= 2
            /\ \A k \in Range(reminded'[e]) :
                  Cardinality({i \in DOMAIN reminded'[e] : reminded'[e][i] = k}) <= 2
       /\ peer' = peer =>
            /\ processed_file' # processed_file => LoadSet(processed_file') = processed_emails'
            /\ reminder_file' # reminder_file => LoadDict(reminder_file') = reminder_sent'
            /\ tracking_file' # tracking_file => LoadDict(tracking_file') = workshop_tracking'
       /\ peer' # peer =>
            /\ processed_file' # processed_file => LoadSet(processed_file') = peer'.pe
            /\ reminder_file' # reminder_file => LoadDict(reminder_file') = peer'.rs
            /\ tracking_file' # tracking_file => LoadDict(tracking_file') = peer'.wt]_vars

\* C16 witness: the confirmation of "a" and its 10:00 reminder of the same
\* date have each been sent successfully twice, and "b", whose confirmation
\* and reminder the second process sent and recorded, is in neither file
\* after the first process rewrote them.
C16_Witness ==
    /\ confirmed["a"] = 2
    /\ Len(reminded["a"]) = 2
    /\ reminded["a"][1] = reminded["a"][2]
    /\ confirmed["b"] = 1
    /\ "b" \notin LoadSet(processed_file)
    /\ Len(reminded["b"]) = 1
    /\ reminded["b"][1] \notin Range(Get(LoadDict(reminder_file), "b"))

\* the day offset, from the reference day, of the last instant of a call
LastOffset(call) ==
    (call.result[Len(call.result)] \div 86400) - (call.from_dt \div 86400)

\* C17: get_next_workshop_datetimes terminates: the call returns count
\* instants and the scan stops at a day offset of at most 7 for every three
\* instants asked for; for count = 3 the three instants lie within day
\* offsets 0..7 of the reference day.
C17_ScanWithinHorizon ==
    genCall.called =>
        /\ Len(genCall.result) = genCall.count
        /\ LastOffset(genCall) >= 0
        /\ LastOffset(genCall) <= 7 * ((genCall.count + 2) \div 3)
        /\ genCall.count = 3 => LastOffset(genCall) <= 7

\* C17 witness: a call with count = 3 whose third instant is at day offset 7,
\* the last day of the horizon (a reference at 20:00:00 sharp on a workshop day).
C17_Witness ==
    /\ genCall.called
    /\ genCall.count = 3
    /\ genCall.from_dt % 86400 = 72000
    /\ LastOffset(genCall) = 7

\* C18: no tick ends on an exception part-way through the rows: the top-up
\* never reads the last element of an empty queue, so no row of the sheet is
\* left unprocessed.
C18_NoAbort ==
    /\ pc # "crashed"
    /\ skipped = <<>>

\* C19: a reminder is sent only for the head of the recipient's queue and
\* only on the date of that occurrence: the date of every reminder attempted,
\* and of every key recorded, is the date of now, it is the head of the
\* recipient's queue (not its second or third date), it is not before
\* cleanup's today (cleanup has not removed it) and the hour is before 22
\* (the pop has not removed it); the clock never goes back, so once an
\* occurrence is popped or cleaned up no reminder for it follows.
C19_HeadOnItsDate ==
    [][/\ clock' >= clock
       /\ \A i \in DOMAIN NewSends :
            LET a == NewSends[i]
            IN a.kind = "reminder" =>
                  /\ a.date = now \div 86400
                  /\ a.date >= today
                  /\ (now % 86400) \div 3600 < 22
                  /\ Get(workshop_tracking', a.to) # <<>>
                  /\ workshop_tracking'[a.to][1] = a.date
                  /\ a.to \in DOMAIN workshop_tracking => workshop_tracking[a.to][1] = a.date
       /\ \A e \in Emails :
            \A k \in Range(Get(reminder_sent', e)) \ Range(Get(reminder_sent, e)) :
                pc = "rows" /\ k[1] = now \div 86400]_vars

\* C19 witness: on Friday at 09:50 the 10:00 reminder of Friday's occurrence,
\* the head of a queue that holds Sunday's too, was sent and recorded.
C19_Witness ==
    /\ RowOf("a")
    /\ now \div 86400 = 4
    /\ Len(tickSends) = 1
    /\ tickSends[1].kind = "reminder"
    /\ tickSends[1].ok
    /\ tickSends[1].date = 4
    /\ Len(workshop_tracking["a"]) = 3
    /\ workshop_tracking["a"][1] = 4
    /\ workshop_tracking["a"][2] = 6
    /\ <<4, 10>> \in Range(Get(reminder_sent, "a"))

\* C20: the windows of the three slots are pairwise disjoint: at no second
\* of a day is more than one slot due (swept over a whole day at the start
\* and checked at every now); a row makes at most one reminder attempt, and
\* a tick sends at most one reminder successfully to an address, however
\* many rows the address has.
C20_OneSlotDue ==
    [][/\ (pc = "idle" /\ clock = 0) =>
            \A s \in 0..86399 :
                Cardinality({h \in {10, 19, 20} : is_within_tolerance(86400 + s, h)}) <= 1
       /\ Cardinality({h \in {10, 19, 20} : is_within_tolerance(now', h)}) <= 1
       /\ \A e \in Emails :
            /\ Len(SendsTo(NewSends, e, "reminder")) <= 1
            /\ Len(OkSends(tickSends', e, "reminder")) <= 1]_vars

\* C20 witness: two rows of the same address in the tick of 20:00:00; the
\* reminder of the first row failed, that of the second was sent.
C20_Witness ==
    /\ pc = "rows"
    /\ Len(rows) = 2
    /\ RowEmail(rows[1]) = "a"
    /\ RowEmail(rows[2]) = "a"
    /\ now % 86400 = 72000
    /\ Len(SendsTo(tickSends, "a", "reminder")) = 2
    /\ Len(OkSends(tickSends, "a", "reminder")) = 1
    /\ tickSends[Len(tickSends)].ok

====
